---- MODULE Spec2Model ----
(***************************************************************************)
(* The external-integration dispatcher of src/src/utils/integrationManager *)
(* .ts: the sliding-window RateLimiter, the IntegrationManager registry,   *)
(* its outbound calls, webhook routing, data sync, the bounded event log   *)
(* and the metrics read from it.                                           *)
(*                                                                         *)
(* Time is Date.now() in milliseconds.  An async method is a process that  *)
(* runs from one await to the next in one atomic step (the JavaScript      *)
(* event loop runs each continuation to completion); processes interleave  *)
(* only at awaits.                                                         *)
(***************************************************************************)
EXTENDS Integers, Sequences, FiniteSets, TLC

VARIABLES
    now,            \* Date.now()
    ticks,          \* how often the clock has advanced
    limiter,        \* one RateLimiter object driven directly: [requests, limits]
    lastReturn,     \* what its last canMakeRequest() returned: <<>> or <<bool>>
    admitted,       \* history: the clock value of every call that returned true
    checks,         \* how many canMakeRequest() calls were made on it
    integrations,   \* IntegrationManager.integrations   (Map id -> config)
    rateLimiters,   \* IntegrationManager.rateLimiters   (Map id -> RateLimiter)
    webhookHandlers,\* IntegrationManager.webhookHandlers (Map id -> handlers)
    events,         \* IntegrationManager.events
    procs,          \* the async invocations in flight, one per slot
    ops,            \* how many invocations were started
    sent,           \* history: every fetch() issued: [n: the invocation, id, time,
                    \*   declared: the rateLimits of the stored configuration then]
    granted,        \* history: per id, the admissions of the limiter now bound to it
    appended,       \* history: every event handed to events.push, in order
    invoked         \* history: every handler / pull / push invocation

limVars == <<limiter, lastReturn, admitted, checks>>
mgrVars == <<integrations, rateLimiters, webhookHandlers, events, procs, ops,
             sent, granted, appended, invoked>>
vars == <<now, ticks, limiter, lastReturn, admitted, checks, integrations,
          rateLimiters, webhookHandlers, events, procs, ops, sent, granted,
          appended, invoked>>

(***************************************************************************)
(* Bounds of the model.                                                    *)
(***************************************************************************)
MaxTicks == 4       \* clock advances in a behaviour of the limiter alone
MaxChecks == 5      \* canMakeRequest() calls in a behaviour of the limiter alone
MaxLimit == 2       \* the largest per-window limit a limiter under test is given

(***************************************************************************)
(* Program constants: the three windows of RateLimiter.canMakeRequest.     *)
(***************************************************************************)
SecondMs == 1000
HourMs == 3600000
DayMs == 86400000

\* Clock steps: they land exactly on, just before and just after each window edge.
Deltas == {1, SecondMs - 1, HourMs - SecondMs, DayMs - HourMs}

\* An optional value (a field that may be undefined): <<>> or <<v>>.
Undefined == <<>>
Some(v) == <<v>>

(***************************************************************************)
(* class RateLimiter                                                       *)
(***************************************************************************)
Limits(s, h, d) == [requestsPerSecond |-> s, requestsPerHour |-> h, requestsPerDay |-> d]

\* constructor: an empty timestamp list and the limits as given
NewRateLimiter(limits) == [requests |-> <<>>, limits |-> limits]

\* this.requests.filter(time => time > cutoff)
RequestsAfter(requests, cutoff) == SelectSeq(requests, LAMBDA time : time > cutoff)

\* canMakeRequest() with the limits compared by > instead of >=
CanMakeRequestOffByOne(lim, t) ==
    LET cleaned == RequestsAfter(lim.requests, t - DayMs)
    IN  IF \/ Len(RequestsAfter(cleaned, t - SecondMs)) > lim.limits.requestsPerSecond
           \/ Len(RequestsAfter(cleaned, t - HourMs)) > lim.limits.requestsPerHour
           \/ Len(cleaned) > lim.limits.requestsPerDay
        THEN [ok |-> FALSE, limiter |-> [lim EXCEPT !.requests = cleaned]]
        ELSE [ok |-> TRUE, limiter |-> [lim EXCEPT !.requests = Append(cleaned, t)]]

\* canMakeRequest() recording the timestamp before it checks the limits
CanMakeRequestRecordFirst(lim, t) ==
    LET cleaned == RequestsAfter(lim.requests, t - DayMs)
    IN  IF \/ Len(RequestsAfter(cleaned, t - SecondMs)) >= lim.limits.requestsPerSecond
           \/ Len(RequestsAfter(cleaned, t - HourMs)) >= lim.limits.requestsPerHour
           \/ Len(cleaned) >= lim.limits.requestsPerDay
        THEN [ok |-> FALSE, limiter |-> [lim EXCEPT !.requests = Append(cleaned, t)]]
        ELSE [ok |-> TRUE, limiter |-> [lim EXCEPT !.requests = Append(cleaned, t)]]

\* canMakeRequest() without the line that drops the old requests
CanMakeRequestNeverPruning(lim, t) ==
    IF \/ Len(RequestsAfter(lim.requests, t - SecondMs)) >= lim.limits.requestsPerSecond
       \/ Len(RequestsAfter(lim.requests, t - HourMs)) >= lim.limits.requestsPerHour
       \/ Len(RequestsAfter(lim.requests, t - DayMs)) >= lim.limits.requestsPerDay
    THEN [ok |-> FALSE, limiter |-> lim]
    ELSE [ok |-> TRUE, limiter |-> [lim EXCEPT !.requests = Append(lim.requests, t)]]

\* canMakeRequest() counting the day's requests before it drops the old ones
CanMakeRequestCountingStale(lim, t) ==
    LET cleaned == RequestsAfter(lim.requests, t - DayMs)
    IN  IF \/ Len(RequestsAfter(cleaned, t - SecondMs)) >= lim.limits.requestsPerSecond
           \/ Len(RequestsAfter(cleaned, t - HourMs)) >= lim.limits.requestsPerHour
           \/ Len(lim.requests) >= lim.limits.requestsPerDay
        THEN [ok |-> FALSE, limiter |-> [lim EXCEPT !.requests = cleaned]]
        ELSE [ok |-> TRUE, limiter |-> [lim EXCEPT !.requests = Append(cleaned, t)]]

\* canMakeRequest() at clock value t: [ok |-> the value returned, limiter |-> the object after]
CanMakeRequest(lim, t) ==
    LET secondAgo == t - SecondMs
        hourAgo == t - HourMs
        dayAgo == t - DayMs
        cleaned == RequestsAfter(lim.requests, dayAgo)
        requestsLastSecond == Len(RequestsAfter(cleaned, secondAgo))
        requestsLastHour == Len(RequestsAfter(cleaned, hourAgo))
        requestsLastDay == Len(cleaned)
    IN  IF \/ requestsLastSecond >= lim.limits.requestsPerSecond
           \/ requestsLastHour >= lim.limits.requestsPerHour
           \/ requestsLastDay >= lim.limits.requestsPerDay
        THEN [ok |-> FALSE, limiter |-> [lim EXCEPT !.requests = cleaned]]
        ELSE [ok |-> TRUE, limiter |-> [lim EXCEPT !.requests = Append(cleaned, t)]]

(***************************************************************************)
(* The limiter alone: one RateLimiter, a clock that never goes back, and   *)
(* canMakeRequest() called at any moment.                                  *)
(***************************************************************************)
LimitChoices ==
    {Limits(s, h, d) : s \in 1..MaxLimit, h \in 1..MaxLimit, d \in 1..(MaxLimit + 1)}

NoManager ==
    /\ integrations = <<>>
    /\ rateLimiters = <<>>
    /\ webhookHandlers = <<>>
    /\ events = <<>>
    /\ procs = <<>>
    /\ ops = 0
    /\ sent = <<>>
    /\ granted = <<>>
    /\ appended = <<>>
    /\ invoked = <<>>

InitLimiter ==
    /\ now = 0
    /\ ticks = 0
    /\ \E l \in LimitChoices : limiter = NewRateLimiter(l)
    /\ lastReturn = Undefined
    /\ admitted = <<>>
    /\ checks = 0
    /\ NoManager

\* the clock advances by d
Advance(d) ==
    /\ now' = now + d
    /\ ticks' = ticks + 1

TickLimiter ==
    /\ ticks < MaxTicks
    /\ \E d \in Deltas : Advance(d)
    /\ UNCHANGED limVars
    /\ UNCHANGED mgrVars

CallCanMakeRequest ==
    /\ checks < MaxChecks
    /\ LET r == CanMakeRequest(limiter, now)
       IN  /\ limiter' = r.limiter
           /\ lastReturn' = Some(r.ok)
           /\ admitted' = IF r.ok THEN Append(admitted, now) ELSE admitted
    /\ checks' = checks + 1
    /\ UNCHANGED <<now, ticks>>
    /\ UNCHANGED mgrVars

NextLimiter == TickLimiter \/ CallCanMakeRequest

SpecLimiter == InitLimiter /\ [][NextLimiter]_vars

(***************************************************************************)
(* Window counts over a history of admission times.                        *)
(***************************************************************************)
\* how many entries of history h lie in the trailing window (t - w, t]
InWindow(h, t, w) == Cardinality({i \in 1..Len(h) : h[i] > t - w /\ h[i] <= t})

\* the moments at which a trailing window can be fullest: each admission, and now
\* (a window ending at any other moment holds no entry that the window ending at
\* the last admission before it does not hold)
Moments(h) == {h[i] : i \in 1..Len(h)} \cup {now}

WithinLimits(h, limits) ==
    \A t \in Moments(h) :
        /\ InWindow(h, t, SecondMs) <= limits.requestsPerSecond
        /\ InWindow(h, t, HourMs) <= limits.requestsPerHour
        /\ InWindow(h, t, DayMs) <= limits.requestsPerDay

\* C1: whatever the sequence of canMakeRequest() calls on one limiter under a
\* clock that never goes back, the calls that returned true inside any trailing
\* 1-second, 1-hour or 24-hour window number at most requestsPerSecond,
\* requestsPerHour and requestsPerDay.
C1_RateLimiterSoundness == WithinLimits(admitted, limiter.limits)

\* C1 witness: the per-day limit alone has turned a call down: the last call
\* returned false with the 1-second and 1-hour windows empty and the 24-hour
\* window full.
C1_Witness ==
    /\ lastReturn = Some(FALSE)
    /\ InWindow(admitted, now, HourMs) = 0
    /\ InWindow(admitted, now, DayMs) = limiter.limits.requestsPerDay

\* the three window counts canMakeRequest() reads off a timestamp list at time t
WindowCounts(requests, t) ==
    <<Len(RequestsAfter(requests, t - SecondMs)),
      Len(RequestsAfter(requests, t - HourMs)),
      Len(RequestsAfter(requests, t - DayMs))>>

\* C2: a canMakeRequest() call that returns false appends no timestamp (every
\* retained entry was there before, none was added) and leaves the number of
\* admitted requests in the 1-second, 1-hour and 24-hour windows as it was.
C2_RejectionConsumesNothing ==
    [][(checks' = checks + 1 /\ lastReturn' = Some(FALSE)) =>
          /\ Len(limiter'.requests) <= Len(limiter.requests)
          /\ \A i \in 1..Len(limiter'.requests) :
                 \E j \in 1..Len(limiter.requests) :
                     limiter'.requests[i] = limiter.requests[j]
          /\ WindowCounts(limiter'.requests, now) = WindowCounts(limiter.requests, now)
          /\ admitted' = admitted
          /\ limiter'.limits = limiter.limits]_vars

\* C2 witness: the only call turned down so far is the last one, and it is the
\* call that dropped an entry older than 24 hours from the list (no admitted
\* call came late enough to drop it).
C2_Witness ==
    /\ lastReturn = Some(FALSE)
    /\ checks = Len(admitted) + 1
    /\ \E i \in 1..Len(admitted) :
           /\ admitted[i] <= now - DayMs
           /\ \A j \in 1..Len(admitted) : admitted[j] < admitted[i] + DayMs
           /\ \A k \in 1..Len(limiter.requests) : limiter.requests[k] # admitted[i]

(***************************************************************************)
(* class IntegrationManager: data                                          *)
(***************************************************************************)
NumProcs == 2       \* invocations that can be in flight together
MaxOps == 3         \* invocations started in a behaviour
MaxMgrTicks == 1    \* clock advances in a behaviour of the manager
MaxEvents == 3      \* the capacity of the event log, scaled down from 10000
MaxHandlers == 2    \* webhook handlers registered in a behaviour

Ids == {"x", "y"}          \* the ids callers pass
Registrable == {"x"}       \* the ids they register; "y" is never in the registry
Procs == 1..NumProcs

\* new Date(ms).toISOString(): the calendar day and the time of day, to the ms
ToISOString(ms) == [date |-> ms \div DayMs, time |-> ms % DayMs]
\* new Date(iso).getTime()
DateParse(iso) == iso.date * DayMs + iso.time

\* Map.set(k, v)
MapSet(m, k, v) == (k :> v) @@ m

\* values thrown: an Error with a message, or null / undefined
Error(message) == [kind |-> "Error", message |-> message]
Nullish == [kind |-> "nullish", message |-> ""]
NotFound(id) == Error("Integration " \o id \o " not found")
RateLimited == Error("Rate limit exceeded")

\* IntegrationConfig.settings
Settings(syncEnabled, lastSync, rateLimits) ==
    [syncEnabled |-> syncEnabled, lastSync |-> lastSync, rateLimits |-> rateLimits]

\* the configurations callers register (createdAt / updatedAt are not theirs to give)
Configs(ids, syncs, limits) ==
    {[id |-> i, status |-> "inactive", settings |-> Settings(se, Undefined, rl)] :
        i \in ids, se \in syncs, rl \in limits}
RegisterChoices == Configs(Registrable, {FALSE}, {Undefined, Some(Limits(1, 2, 2))})

\* the partial configurations callers pass to updateIntegration
UpdateChoices ==
    {[status |-> "inactive"], [settings |-> Settings(FALSE, Undefined, Some(Limits(1, 1, 1)))]}

\* what fetch() settles with: a Response, or a rejection with a network error
Statuses == {200, 299, 300}
Response(status) == [kind |-> "response", status |-> status]
NetworkError == [kind |-> "error", message |-> "Failed to fetch"]
TransportOutcomes == {Response(st) : st \in Statuses} \cup {NetworkError}
\* Response.ok with 2xx taken to be 200 alone
ResponseOkOnly200(r) == r.status = 200
\* Response.ok
ResponseOk(r) == r.status >= 200 /\ r.status <= 299

\* a slot with nothing in flight
Idle ==
    [op |-> "none", n |-> 0, pc |-> "idle", id |-> "", endpoint |-> "", startTime |-> 0,
     err |-> Undefined, result |-> Undefined, settings |-> Undefined,
     direction |-> "", eventType |-> "", matching |-> <<>>, updates |-> Undefined]
Free(p) == procs[p].pc \in {"idle", "done"}
\* a new invocation takes the first free slot
FirstFree(p) == Free(p) /\ \A q \in Procs : q < p => ~Free(q)
CanStart(p) == FirstFree(p) /\ ops < MaxOps
\* invocation number ops + 1 of method op on integration id
Begin(op, id) == [Idle EXCEPT !.op = op, !.n = ops + 1, !.id = id]
Returned(v) == Some([kind |-> "return", value |-> v])
Threw(e) == Some([kind |-> "throw", value |-> e])

(***************************************************************************)
(* logEvent                                                                *)
(***************************************************************************)
Event(serial, id, type, direction, status, data, error, t, metadata) ==
    [id |-> [time |-> t, serial |-> serial], integrationId |-> id, type |-> type,
     direction |-> direction, status |-> status, data |-> data, error |-> error,
     timestamp |-> ToISOString(t), retryCount |-> 0, metadata |-> metadata]

\* seq.slice(-n)
SliceLast(seq, n) ==
    IF Len(seq) <= n THEN seq ELSE SubSeq(seq, Len(seq) - n + 1, Len(seq))

\* push and trim, trimming from the wrong end: slice(0, MaxEvents)
PushEventKeepOldest(evs, e) ==
    LET pushed == Append(evs, e)
    IN  IF Len(pushed) > MaxEvents THEN SubSeq(pushed, 1, MaxEvents) ELSE pushed

\* this.events.push(event), then the trim to the last MaxEvents entries
PushEvent(evs, e) ==
    LET pushed == Append(evs, e)
    IN  IF Len(pushed) > MaxEvents THEN SliceLast(pushed, MaxEvents) ELSE pushed

\* the event logEvent(...) builds at this moment
NewEvent(id, type, direction, status, data, error, metadata) ==
    Event(Len(appended) + 1, id, type, direction, status, data, error, now, metadata)

\* logEvent(...) as a step: the log and its history after it
LogEvent(e) ==
    /\ events' = PushEvent(events, e)
    /\ appended' = Append(appended, e)

(***************************************************************************)
(* updateIntegration                                                       *)
(***************************************************************************)
\* the spread in the wrong order: { ...updates, ...integration, updatedAt: now }
MergedStoredFirst(integration, updates, t) ==
    [f \in DOMAIN integration |->
        IF f = "updatedAt" THEN ToISOString(t) ELSE integration[f]]

\* { ...integration, ...updates, updatedAt: now }
Merged(integration, updates, t) ==
    [f \in DOMAIN integration |->
        IF f = "updatedAt" THEN ToISOString(t)
        ELSE IF f \in DOMAIN updates THEN updates[f] ELSE integration[f]]

\* updateIntegration(id, updates): [thrown, integrations after]
UpdateIntegration(ints, id, updates, t) ==
    IF id \notin DOMAIN ints
    THEN [thrown |-> Some(NotFound(id)), integrations |-> ints]
    ELSE [thrown |-> Undefined,
          integrations |-> MapSet(ints, id, Merged(ints[id], updates, t))]

(***************************************************************************)
(* makeApiCall                                                             *)
(***************************************************************************)
\* makeApiCall checking the limits without recording the request
AdmitWithoutRecording(lims, id, t) ==
    IF id \in DOMAIN lims
    THEN [ok |-> CanMakeRequest(lims[id], t).ok,
          rateLimiters |-> MapSet(lims, id,
              [lims[id] EXCEPT !.requests = RequestsAfter(lims[id].requests, t - DayMs)])]
    ELSE [ok |-> TRUE, rateLimiters |-> lims]

\* const rateLimiter = this.rateLimiters.get(id);
\* if (rateLimiter && !rateLimiter.canMakeRequest()) throw ...
Admit(lims, id, t) ==
    IF id \in DOMAIN lims
    THEN LET r == CanMakeRequest(lims[id], t)
         IN  [ok |-> r.ok, rateLimiters |-> MapSet(lims, id, r.limiter)]
    ELSE [ok |-> TRUE, rateLimiters |-> lims]

\* (error as Error).message; reading it off null or undefined throws a TypeError
HasMessage(e) == e.kind = "Error"
TypeErrorOnRead == Error("Cannot read properties of undefined (reading 'message')")

\* makeApiCall's entry, logging a failed api_call event when the limiter says no
MakeApiCallEntryLoggingRejection(ints, lims, id, t) ==
    IF id \notin DOMAIN ints
    THEN [thrown |-> Some(NotFound(id)), rateLimiters |-> lims, fetched |-> FALSE,
          logged |-> <<>>]
    ELSE LET a == Admit(lims, id, t)
         IN  IF ~a.ok
             THEN [thrown |-> Some(RateLimited), rateLimiters |-> a.rateLimiters,
                   fetched |-> FALSE,
                   logged |-> <<[type |-> "api_call", status |-> "failed"]>>]
             ELSE [thrown |-> Undefined, rateLimiters |-> a.rateLimiters,
                   fetched |-> TRUE, logged |-> <<>>]

\* makeApiCall from its entry to its first await, the pending fetch():
\* [thrown, rateLimiters after, fetched: whether fetch() was issued,
\*  logged: what it handed to logEvent on the way (nothing)]
MakeApiCallEntry(ints, lims, id, t) ==
    IF id \notin DOMAIN ints
    THEN [thrown |-> Some(NotFound(id)), rateLimiters |-> lims, fetched |-> FALSE,
          logged |-> <<>>]
    ELSE LET a == Admit(lims, id, t)
         IN  IF ~a.ok
             THEN [thrown |-> Some(RateLimited), rateLimiters |-> a.rateLimiters,
                   fetched |-> FALSE, logged |-> <<>>]
             ELSE [thrown |-> Undefined, rateLimiters |-> a.rateLimiters,
                   fetched |-> TRUE, logged |-> <<>>]

\* the same with testIntegration's try block not covering the call: what
\* makeApiCall throws at its entry leaves testIntegration as it leaves a direct call
AfterEntryUncaught(op, id, endpoint, e) ==
    IF e.fetched
    THEN [Begin(op, id) EXCEPT !.pc = "fetch", !.startTime = now, !.endpoint = endpoint]
    ELSE [Begin(op, id) EXCEPT !.pc = "done", !.result = Threw(e.thrown[1])]

\* the slot of an invocation op that has just run makeApiCall's entry: waiting on
\* fetch(), or holding the error thrown (testIntegration catches it after its await)
AfterEntry(op, id, endpoint, e) ==
    IF e.fetched
    THEN [Begin(op, id) EXCEPT !.pc = "fetch", !.startTime = now, !.endpoint = endpoint]
    ELSE IF op = "call"
         THEN [Begin(op, id) EXCEPT !.pc = "done", !.result = Threw(e.thrown[1])]
         ELSE [Begin(op, id) EXCEPT !.pc = "test_catch", !.err = e.thrown]

\* slot p runs makeApiCall's entry on the registry ints and the limiters lims
\* (gr: the admission histories, reset for a limiter that was just bound)
EnterCall(p, op, ints, lims, gr, id, endpoint) ==
    LET e == MakeApiCallEntry(ints, lims, id, now)
    IN  /\ rateLimiters' = e.rateLimiters
        /\ sent' = IF e.fetched
                   THEN Append(sent, [n |-> ops + 1, id |-> id, time |-> now,
                                      declared |-> ints[id].settings.rateLimits])
                   ELSE sent
        /\ granted' = IF e.fetched /\ id \in DOMAIN lims
                      THEN MapSet(gr, id, Append(gr[id], now)) ELSE gr
        /\ IF e.logged = <<>>
           THEN UNCHANGED <<events, appended>>
           ELSE LogEvent(NewEvent(id, e.logged[1].type, "outbound", e.logged[1].status,
                                  Undefined, Some(e.thrown[1].message), Undefined))
        /\ procs' = [procs EXCEPT ![p] = AfterEntry(op, id, endpoint, e)]
        /\ ops' = ops + 1

\* makeApiCall(id, "POST", "/send", ...) is called
StartCall(p, id) ==
    /\ CanStart(p)
    /\ EnterCall(p, "call", integrations, rateLimiters, granted, id, "/send")
    /\ UNCHANGED <<integrations, webhookHandlers, invoked>>
    /\ UNCHANGED <<now, ticks>>
    /\ UNCHANGED limVars

\* the api_call event makeApiCall logs once fetch() has settled with outcome o
ApiCallEvent(pr, o) ==
    LET responseTime == now - pr.startTime
        data == Some([method |-> IF pr.op = "call" THEN "POST" ELSE "GET",
                      endpoint |-> pr.endpoint])
    IN  IF o.kind = "response"
        THEN NewEvent(pr.id, "api_call", "outbound",
                      IF ResponseOk(o) THEN "success" ELSE "failed", data,
                      IF ResponseOk(o) THEN Undefined
                      ELSE Some("HTTP " \o ToString(o.status)),
                      Some([endpoint |-> pr.endpoint, httpStatus |-> Some(o.status),
                            responseTime |-> Some(responseTime)]))
        ELSE NewEvent(pr.id, "api_call", "outbound", "failed", data, Some(o.message),
                      Some([endpoint |-> pr.endpoint, httpStatus |-> Undefined,
                            responseTime |-> Some(responseTime)]))

\* makeApiCall resolving with nothing after it logged a failure of fetch()
AfterFetchSwallowing(pr, o) ==
    IF pr.op = "call"
    THEN [pr EXCEPT !.pc = "done",
                    !.result = IF o.kind = "response" THEN Returned(o)
                               ELSE Returned("undefined")]
    ELSE IF o.kind = "response"
         THEN [pr EXCEPT !.pc = IF ResponseOk(o) THEN "test_ok" ELSE "test_bad"]
         ELSE [pr EXCEPT !.pc = "test_catch", !.err = Some(Error(o.message))]

\* the slot after fetch() has settled with o and the event is logged: makeApiCall
\* returns the response or re-throws; testIntegration goes on with what it got
AfterFetch(pr, o) ==
    IF pr.op = "call"
    THEN [pr EXCEPT !.pc = "done",
                    !.result = IF o.kind = "response" THEN Returned(o)
                               ELSE Threw(Error(o.message))]
    ELSE IF o.kind = "response"
         THEN [pr EXCEPT !.pc = IF ResponseOk(o) THEN "test_ok" ELSE "test_bad"]
         ELSE [pr EXCEPT !.pc = "test_catch", !.err = Some(Error(o.message))]

\* the fetch() of slot p settles with one of outcomes
SettleFetch(p, outcomes) ==
    /\ procs[p].pc = "fetch"
    /\ \E o \in outcomes :
        /\ LogEvent(ApiCallEvent(procs[p], o))
        /\ procs' = [procs EXCEPT ![p] = AfterFetch(procs[p], o)]
    /\ UNCHANGED <<integrations, rateLimiters, webhookHandlers, ops, sent, granted, invoked>>
    /\ UNCHANGED <<now, ticks>>
    /\ UNCHANGED limVars

(***************************************************************************)
(* testIntegration and registerIntegration                                 *)
(***************************************************************************)
\* what the invocation in slot p resolves with once the test has finished with ok
TestResult(pr, ok) == IF pr.op = "register" THEN Returned(pr.id) ELSE Returned(ok)

\* testIntegration(id) is called
StartTest(p, id) ==
    /\ CanStart(p)
    /\ IF id \notin DOMAIN integrations
       THEN /\ procs' = [procs EXCEPT ![p] =
                   [Begin("test", id) EXCEPT !.pc = "done", !.result = Threw(NotFound(id))]]
            /\ ops' = ops + 1
            /\ UNCHANGED <<rateLimiters, sent, granted, events, appended>>
       ELSE EnterCall(p, "test", integrations, rateLimiters, granted, id, "/health")
    /\ UNCHANGED <<integrations, webhookHandlers, invoked>>
    /\ UNCHANGED <<now, ticks>>
    /\ UNCHANGED limVars

\* the stored configuration registerIntegration builds from config
Registered(config, t) ==
    [id |-> config.id, status |-> config.status, settings |-> config.settings,
     createdAt |-> ToISOString(t), updatedAt |-> ToISOString(t)]

\* the limiters after registerIntegration(config)
LimitersAfterRegister(lims, config) ==
    IF config.settings.rateLimits # Undefined
    THEN MapSet(lims, config.id, NewRateLimiter(config.settings.rateLimits[1]))
    ELSE lims

\* registerIntegration(config) is called: it stores the configuration, binds a
\* fresh limiter when limits are declared, and enters testIntegration
StartRegister(p, config) ==
    /\ CanStart(p)
    /\ integrations' = MapSet(integrations, config.id, Registered(config, now))
    /\ EnterCall(p, "register", integrations', LimitersAfterRegister(rateLimiters, config),
                 IF config.settings.rateLimits # Undefined
                 THEN MapSet(granted, config.id, <<>>) ELSE granted,
                 config.id, "/health")
    /\ UNCHANGED <<webhookHandlers, invoked>>
    /\ UNCHANGED <<now, ticks>>
    /\ UNCHANGED limVars

\* testIntegration after its await of makeApiCall: the status is written
TestSetStatus(p) ==
    /\ procs[p].pc \in {"test_ok", "test_bad", "test_catch"}
    /\ LET pr == procs[p]
           status == IF pr.pc = "test_ok" THEN "active" ELSE "error"
           u == UpdateIntegration(integrations, pr.id, [status |-> status], now)
       IN  /\ integrations' = u.integrations
           /\ procs' = [procs EXCEPT ![p] =
                  IF pr.pc = "test_catch" THEN [pr EXCEPT !.pc = "test_log"]
                  ELSE [pr EXCEPT !.pc = "done", !.result = TestResult(pr, pr.pc = "test_ok")]]
    /\ UNCHANGED <<rateLimiters, webhookHandlers, events, ops, sent, granted,
                   appended, invoked>>
    /\ UNCHANGED <<now, ticks>>
    /\ UNCHANGED limVars

\* testIntegration's catch block after its await of updateIntegration: the
\* 'error' event is logged and false returned
TestLogError(p) ==
    /\ procs[p].pc = "test_log"
    /\ LogEvent(NewEvent(procs[p].id, "error", "outbound", "failed", Undefined,
                         Some(procs[p].err[1].message), Undefined))
    /\ procs' = [procs EXCEPT ![p] =
           [procs[p] EXCEPT !.pc = "done", !.result = TestResult(procs[p], FALSE)]]
    /\ UNCHANGED <<integrations, rateLimiters, webhookHandlers, ops, sent, granted, invoked>>
    /\ UNCHANGED <<now, ticks>>
    /\ UNCHANGED limVars

\* updateIntegration(id, updates) is called by a user of the manager
StartUpdate(p, id, updates) ==
    /\ CanStart(p)
    /\ LET u == UpdateIntegration(integrations, id, updates, now)
       IN  /\ integrations' = u.integrations
           /\ procs' = [procs EXCEPT ![p] =
                  [Begin("update", id) EXCEPT
                      !.pc = "done", !.updates = Some(updates),
                      !.result = IF u.thrown = Undefined THEN Returned("void")
                                 ELSE Threw(u.thrown[1])]]
    /\ ops' = ops + 1
    /\ UNCHANGED <<rateLimiters, webhookHandlers, events, sent, granted,
                   appended, invoked>>
    /\ UNCHANGED <<now, ticks>>
    /\ UNCHANGED limVars

(***************************************************************************)
(* The manager: registrations, updates, connection tests and calls, in any *)
(* interleaving, under a clock that never goes back.                       *)
(***************************************************************************)
MgrDeltas == {SecondMs}

TickMgr ==
    /\ ticks < MaxMgrTicks
    /\ \E d \in MgrDeltas : Advance(d)
    /\ UNCHANGED limVars
    /\ UNCHANGED mgrVars

\* a new IntegrationManager: empty maps, an empty log, nothing in flight (the
\* limiter driven directly plays no part in the manager's behaviours)
Init ==
    /\ now = 0
    /\ ticks = 0
    /\ limiter = NewRateLimiter(Limits(1, 1, 1))
    /\ lastReturn = Undefined
    /\ admitted = <<>>
    /\ checks = 0
    /\ integrations = <<>>
    /\ rateLimiters = <<>>
    /\ webhookHandlers = <<>>
    /\ events = <<>>
    /\ procs = [p \in Procs |-> Idle]
    /\ ops = 0
    /\ sent = <<>>
    /\ granted = <<>>
    /\ appended = <<>>
    /\ invoked = <<>>

Next ==
    \/ \E p \in Procs, c \in RegisterChoices : StartRegister(p, c)
    \/ \E p \in Procs, i \in Registrable, u \in UpdateChoices : StartUpdate(p, i, u)
    \/ \E p \in Procs, i \in Registrable : StartTest(p, i)
    \/ \E p \in Procs, i \in Ids : StartCall(p, i)
    \/ \E p \in Procs : SettleFetch(p, TransportOutcomes)
    \/ \E p \in Procs : TestSetStatus(p)
    \/ \E p \in Procs : TestLogError(p)
    \/ TickMgr

Spec == Init /\ [][Next]_vars


(***************************************************************************)
(* registerWebhookHandler and handleWebhook                                *)
(***************************************************************************)
EventTypes == {"paid", "refund"}
\* the registrations callers make; handler is the identity of the callback
HandlerChoices == {[integrationId |-> "x", eventTypes |-> {et}] : et \in EventTypes}
\* what an invoked handler does: resolve, throw an Error, or throw / reject with
\* nothing (throw undefined, Promise.reject())
HandlerOutcomes == {[kind |-> "ok", message |-> ""], Error("boom"), Nullish}

\* this.webhookHandlers.get(id) || []
HandlersOf(id) == IF id \in DOMAIN webhookHandlers THEN webhookHandlers[id] ELSE <<>>

\* how many handlers are registered, over all integrations
Registrations ==
    LET RECURSIVE Sum(_)
        Sum(S) == IF S = {} THEN 0
                  ELSE LET i == CHOOSE i \in S : TRUE
                       IN  Len(webhookHandlers[i]) + Sum(S \ {i})
    IN  Sum(DOMAIN webhookHandlers)

\* registerWebhookHandler(handler)
RegisterWebhookHandler(h) ==
    /\ Registrations < MaxHandlers
    /\ LET existing == HandlersOf(h.integrationId)
           handler == [integrationId |-> h.integrationId, eventTypes |-> h.eventTypes,
                       handler |-> Registrations + 1]
       IN  webhookHandlers' = MapSet(webhookHandlers, h.integrationId,
                                     Append(existing, handler))
    /\ UNCHANGED <<integrations, rateLimiters, events, procs, ops, sent, granted,
                   appended, invoked>>
    /\ UNCHANGED <<now, ticks>>
    /\ UNCHANGED limVars

\* handlers.filter(h => h.eventTypes.includes(eventType))
MatchingHandlers(id, eventType) ==
    SelectSeq(HandlersOf(id), LAMBDA h : eventType \in h.eventTypes)

\* the record of invocation number n calling a handler, pullData or pushData
Invocation(n, what, handler) == [n |-> n, what |-> what, handler |-> handler]

\* handleWebhook(id, eventType, data) is called: the matching handlers are
\* collected and the first one is invoked
StartWebhook(p, id, eventType) ==
    /\ CanStart(p)
    /\ LET matching == MatchingHandlers(id, eventType)
       IN  IF matching = <<>>
           THEN /\ procs' = [procs EXCEPT ![p] =
                       [Begin("webhook", id) EXCEPT !.pc = "done", !.eventType = eventType,
                                                    !.result = Returned("void")]]
                /\ UNCHANGED invoked
           ELSE /\ procs' = [procs EXCEPT ![p] =
                       [Begin("webhook", id) EXCEPT !.pc = "handler", !.eventType = eventType,
                                                    !.matching = matching]]
                /\ invoked' = Append(invoked,
                                     Invocation(ops + 1, "handler", matching[1].handler))
    /\ ops' = ops + 1
    /\ UNCHANGED <<integrations, rateLimiters, webhookHandlers, events, sent, granted,
                   appended>>
    /\ UNCHANGED <<now, ticks>>
    /\ UNCHANGED limVars

\* whether the catch block gets past (error as Error).message for the thrown o
CatchSurvives(o) == HasMessage(o)

\* the handler that slot p awaits settles with outcome o: the outcome is logged
\* and the next matching handler invoked; a catch block that cannot read
\* error.message throws out of handleWebhook
SettleHandler(p) ==
    /\ procs[p].pc = "handler"
    /\ \E o \in HandlerOutcomes :
        LET pr == procs[p]
            rest == Tail(pr.matching)
            data == Some([payload |-> "data"])
        IN  IF o.kind # "ok" /\ ~CatchSurvives(o)
            THEN /\ procs' = [procs EXCEPT ![p] =
                        [pr EXCEPT !.pc = "done", !.result = Threw(TypeErrorOnRead)]]
                 /\ UNCHANGED <<events, appended, invoked>>
            ELSE /\ LogEvent(NewEvent(pr.id, "webhook", "inbound",
                                      IF o.kind = "ok" THEN "success" ELSE "failed", data,
                                      IF o.kind = "ok" THEN Undefined ELSE Some(o.message),
                                      Undefined))
                 /\ IF rest = <<>>
                    THEN /\ procs' = [procs EXCEPT ![p] =
                                [pr EXCEPT !.pc = "done", !.matching = rest,
                                           !.result = Returned("void")]]
                         /\ UNCHANGED invoked
                    ELSE /\ procs' = [procs EXCEPT ![p] = [pr EXCEPT !.matching = rest]]
                         /\ invoked' = Append(invoked,
                                              Invocation(pr.n, "handler", rest[1].handler))
    /\ UNCHANGED <<integrations, rateLimiters, webhookHandlers, ops, sent, granted>>
    /\ UNCHANGED <<now, ticks>>
    /\ UNCHANGED limVars

(***************************************************************************)
(* syncData                                                                *)
(***************************************************************************)
Directions == {"pull", "push", "bidirectional"}
\* what pullData / pushData do: resolve, throw an Error, or throw nothing
StepOutcomes == {[kind |-> "ok", message |-> ""], Error("sync failed"), Nullish}

\* syncData without the test of settings.syncEnabled
StartSyncIgnoringFlag(p, id, direction) ==
    /\ CanStart(p)
    /\ IF id \notin DOMAIN integrations
       THEN /\ procs' = [procs EXCEPT ![p] =
                   [Begin("sync", id) EXCEPT !.pc = "done", !.direction = direction,
                                             !.result = Returned("void")]]
            /\ UNCHANGED invoked
       ELSE LET first == IF direction \in {"pull", "bidirectional"} THEN "pull" ELSE "push"
            IN  /\ procs' = [procs EXCEPT ![p] =
                       [Begin("sync", id) EXCEPT
                           !.pc = first, !.direction = direction,
                           !.settings = Some(integrations[id].settings)]]
                /\ invoked' = Append(invoked, Invocation(ops + 1, first, 0))
    /\ ops' = ops + 1
    /\ UNCHANGED <<integrations, rateLimiters, webhookHandlers, events, sent, granted,
                   appended>>
    /\ UNCHANGED <<now, ticks>>
    /\ UNCHANGED limVars

\* syncData with the two tests of direction exchanged: a bidirectional sync
\* starts with pushData
StartSyncPushFirst(p, id, direction) ==
    /\ CanStart(p)
    /\ IF id \notin DOMAIN integrations \/ ~integrations[id].settings.syncEnabled
       THEN /\ procs' = [procs EXCEPT ![p] =
                   [Begin("sync", id) EXCEPT !.pc = "done", !.direction = direction,
                                             !.result = Returned("void")]]
            /\ UNCHANGED invoked
       ELSE LET first == IF direction \in {"push", "bidirectional"} THEN "push" ELSE "pull"
            IN  /\ procs' = [procs EXCEPT ![p] =
                       [Begin("sync", id) EXCEPT
                           !.pc = first, !.direction = direction,
                           !.settings = Some(integrations[id].settings)]]
                /\ invoked' = Append(invoked, Invocation(ops + 1, first, 0))
    /\ ops' = ops + 1
    /\ UNCHANGED <<integrations, rateLimiters, webhookHandlers, events, sent, granted,
                   appended>>
    /\ UNCHANGED <<now, ticks>>
    /\ UNCHANGED limVars

\* syncData(id, direction) is called: nothing happens for an unknown id or with
\* syncEnabled false; otherwise the settings are read and the first step invoked
StartSync(p, id, direction) ==
    /\ CanStart(p)
    /\ IF id \notin DOMAIN integrations \/ ~integrations[id].settings.syncEnabled
       THEN /\ procs' = [procs EXCEPT ![p] =
                   [Begin("sync", id) EXCEPT !.pc = "done", !.direction = direction,
                                             !.result = Returned("void")]]
            /\ UNCHANGED invoked
       ELSE LET first == IF direction \in {"pull", "bidirectional"} THEN "pull" ELSE "push"
            IN  /\ procs' = [procs EXCEPT ![p] =
                       [Begin("sync", id) EXCEPT
                           !.pc = first, !.direction = direction,
                           !.settings = Some(integrations[id].settings)]]
                /\ invoked' = Append(invoked, Invocation(ops + 1, first, 0))
    /\ ops' = ops + 1
    /\ UNCHANGED <<integrations, rateLimiters, webhookHandlers, events, sent, granted,
                   appended>>
    /\ UNCHANGED <<now, ticks>>
    /\ UNCHANGED limVars

\* the settings written back without the new lastSync
WithLastSyncOmitted(settings, t) == settings

\* { ...integration.settings, lastSync: now }, from the settings read at the start
WithLastSync(settings, t) == [settings EXCEPT !.lastSync = Some(ToISOString(t))]

\* the pull or push step that slot p awaits settles with outcome o
SettleStep(p) ==
    /\ procs[p].pc \in {"pull", "push"}
    /\ \E o \in StepOutcomes :
        LET pr == procs[p]
            data == Some([direction |-> pr.direction])
        IN  IF o.kind = "ok"
            THEN IF pr.pc = "pull" /\ pr.direction = "bidirectional"
                 THEN \* pushData is invoked next
                      /\ procs' = [procs EXCEPT ![p] = [pr EXCEPT !.pc = "push"]]
                      /\ invoked' = Append(invoked, Invocation(pr.n, "push", 0))
                      /\ UNCHANGED <<integrations, events, appended>>
                 ELSE \* updateIntegration(id, {settings: {..., lastSync}})
                      LET u == UpdateIntegration(integrations, pr.id,
                                   [settings |-> WithLastSync(pr.settings[1], now)], now)
                      IN  /\ integrations' = u.integrations
                          /\ procs' = [procs EXCEPT ![p] = [pr EXCEPT !.pc = "sync_log"]]
                          /\ UNCHANGED <<events, appended, invoked>>
            ELSE IF CatchSurvives(o)
                 THEN /\ LogEvent(NewEvent(pr.id, "sync", "outbound", "failed", data,
                                           Some(o.message), Undefined))
                      /\ procs' = [procs EXCEPT ![p] =
                             [pr EXCEPT !.pc = "done", !.result = Returned("void")]]
                      /\ UNCHANGED <<integrations, invoked>>
                 ELSE /\ procs' = [procs EXCEPT ![p] =
                             [pr EXCEPT !.pc = "done", !.result = Threw(TypeErrorOnRead)]]
                      /\ UNCHANGED <<integrations, events, appended, invoked>>
    /\ UNCHANGED <<rateLimiters, webhookHandlers, ops, sent, granted>>
    /\ UNCHANGED <<now, ticks>>
    /\ UNCHANGED limVars

\* syncData after its await of updateIntegration: the success event is logged
SyncLogSuccess(p) ==
    /\ procs[p].pc = "sync_log"
    /\ LogEvent(NewEvent(procs[p].id, "sync", "outbound", "success",
                         Some([direction |-> procs[p].direction]), Undefined, Undefined))
    /\ procs' = [procs EXCEPT ![p] =
           [procs[p] EXCEPT !.pc = "done", !.result = Returned("void")]]
    /\ UNCHANGED <<integrations, rateLimiters, webhookHandlers, ops, sent, granted, invoked>>
    /\ UNCHANGED <<now, ticks>>
    /\ UNCHANGED limVars

(***************************************************************************)
(* The webhook router alone, and the sync orchestrator alone.              *)
(***************************************************************************)
NextWebhook ==
    \/ \E h \in HandlerChoices : RegisterWebhookHandler(h)
    \/ \E p \in Procs, i \in Registrable, et \in {"paid"} : StartWebhook(p, i, et)
    \/ \E p \in Procs : SettleHandler(p)
    \/ TickMgr

SpecWebhook == Init /\ [][NextWebhook]_vars

SyncConfigs == Configs(Registrable, BOOLEAN, {Undefined})

NextSync ==
    \/ \E p \in Procs, c \in SyncConfigs : StartRegister(p, c)
    \/ \E p \in Procs : SettleFetch(p, {Response(200)})
    \/ \E p \in Procs : TestSetStatus(p)
    \/ \E p \in Procs, i \in Ids, d \in Directions : StartSync(p, i, d)
    \/ \E p \in Procs : SettleStep(p)
    \/ \E p \in Procs : SyncLogSuccess(p)
    \/ TickMgr

SpecSync == Init /\ [][NextSync]_vars

(***************************************************************************)
(* Everything that writes the event log, together: connection tests,       *)
(* calls, webhooks and syncs of one integration.                           *)
(***************************************************************************)
LogConfigs == Configs(Registrable, {TRUE}, {Undefined})

NextLog ==
    \/ \E p \in Procs, c \in LogConfigs : StartRegister(p, c)
    \/ \E p \in Procs, i \in Registrable : StartTest(p, i)
    \/ \E p \in Procs, i \in Registrable : StartCall(p, i)
    \/ \E p \in Procs : SettleFetch(p, {Response(200), NetworkError})
    \/ \E p \in Procs : TestSetStatus(p)
    \/ \E p \in Procs : TestLogError(p)
    \/ \E h \in HandlerChoices : h.eventTypes = {"paid"} /\ RegisterWebhookHandler(h)
    \/ \E p \in Procs, i \in Registrable : StartWebhook(p, i, "paid")
    \/ \E p \in Procs : SettleHandler(p)
    \/ \E p \in Procs, i \in Registrable : StartSync(p, i, "pull")
    \/ \E p \in Procs : SettleStep(p)
    \/ \E p \in Procs : SyncLogSuccess(p)

SpecLog == Init /\ [][NextLog]_vars

\* the invocation that a step starts takes slot p
Starts(p) == FirstFree(p) /\ ops' = ops + 1
\* the fetch() of slot p settles in a step
Settles(p) == procs[p].pc = "fetch" /\ procs'[p].pc # "fetch"
\* the invocation in slot p was turned down by the limiter
Rejected(p) == procs[p].pc = "done" /\ procs[p].result = Threw(RateLimited)

\* C3: under every interleaving of makeApiCall invocations (direct ones and the
\* health calls of testIntegration / registerIntegration) the check and the
\* recording are one step: the limiter bound to an id holds the timestamp of
\* every request it admitted that a window still covers, and the requests it
\* admitted never exceed any of its three limits, so no two calls in flight were
\* admitted on one remaining slot.
C3_AdmissionIsAtomic ==
    \A id \in DOMAIN rateLimiters :
        /\ WithinLimits(granted[id], rateLimiters[id].limits)
        /\ \A i \in 1..Len(granted[id]) :
               granted[id][i] > now - DayMs =>
                   \E k \in 1..Len(rateLimiters[id].requests) :
                       rateLimiters[id].requests[k] = granted[id][i]

\* C3 witness: two makeApiCall invocations for one integration at the same
\* instant, competing for the last slot of the 1-second window: one is in flight,
\* the other was turned down.
C3_Witness ==
    \E p, q \in Procs :
        /\ procs[p].op = "call" /\ procs[p].pc = "fetch" /\ procs[p].startTime = now
        /\ procs[q].op = "call" /\ Rejected(q) /\ procs[q].id = procs[p].id
        /\ procs[q].n > procs[p].n
        /\ Len(RequestsAfter(rateLimiters[procs[p].id].requests, now - SecondMs))
               = rateLimiters[procs[p].id].limits.requestsPerSecond

\* the times of the requests sent for integration id while its stored
\* configuration declared the rateLimits rl
SentUnder(id, rl) ==
    LET mine == SelectSeq(sent, LAMBDA r : r.id = id /\ r.declared = rl)
    IN  [i \in 1..Len(mine) |-> mine[i].time]

\* C4 (as claimed): the requests sent for an integration inside any trailing
\* 1-second, 1-hour or 24-hour window never exceed the rateLimits declared in
\* its stored configuration (counting only the requests sent while the stored
\* configuration declared those very limits).
C4_SentWithinStoredLimits ==
    \A id \in DOMAIN integrations :
        LET rl == integrations[id].settings.rateLimits
        IN  rl # Undefined => WithinLimits(SentUnder(id, rl), rl[1])

\* C9: a makeApiCall whose integration has a limiter that says no fails with
\* 'Rate limit exceeded', issues no fetch() and leaves the event log as it was.
C9_RejectionIsSilent ==
    [][\A p \in Procs, id \in Ids :
          (/\ Starts(p) /\ procs'[p].op = "call" /\ procs'[p].id = id
           /\ id \in DOMAIN integrations /\ id \in DOMAIN rateLimiters
           /\ ~CanMakeRequest(rateLimiters[id], now).ok) =>
              /\ procs'[p].pc = "done"
              /\ procs'[p].result = Threw(RateLimited)
              /\ sent' = sent
              /\ events' = events
              /\ appended' = appended]_vars

\* C9 witness: a direct call was turned down by the limiter, after an earlier
\* call to the same integration had been logged.
C9_Witness ==
    \E p \in Procs :
        /\ procs[p].op = "call" /\ Rejected(p)
        /\ \E i \in 1..Len(events) : events[i].integrationId = procs[p].id
        /\ \A q \in Procs : procs[q].n <= procs[p].n

\* what fetch() settled slot p with, read off the slot after the step
SettledOk(p) ==
    \/ procs'[p].pc = "test_ok"
    \/ procs'[p].op = "call" /\ procs'[p].result[1].kind = "return"
SettledNot2xx(p) ==
    \/ procs'[p].pc = "test_bad"
    \/ /\ procs'[p].op = "call" /\ procs'[p].result[1].kind = "return"
       /\ procs'[p].result[1].value.status \notin 200..299
SettledThrew(p) ==
    \/ procs'[p].pc = "test_catch"
    \/ procs'[p].op = "call" /\ procs'[p].result[1].kind = "throw"
ThrownMessage(p) ==
    IF procs'[p].op = "call" THEN procs'[p].result[1].value.message
    ELSE procs'[p].err[1].message

\* C10: a makeApiCall that passed lookup and admission logs nothing until its
\* fetch() settles and then exactly one api_call / outbound event, at the tail:
\* success when the response is 2xx, failed with error 'HTTP <status>' when a
\* response outside 2xx was returned, failed with the error's message when
\* fetch() threw, and metadata.responseTime set in each case.
C10_OneApiCallEventPerCall ==
    [][\A p \in Procs :
          /\ (Starts(p) /\ procs'[p].pc = "fetch") => appended' = appended
          /\ Settles(p) =>
              /\ Len(appended') = Len(appended) + 1
              /\ SubSeq(appended', 1, Len(appended)) = appended
              /\ events'[Len(events')] = appended'[Len(appended')]
              /\ LET e == appended'[Len(appended')]
                 IN  /\ e.type = "api_call" /\ e.direction = "outbound"
                     /\ e.integrationId = procs[p].id
                     /\ e.metadata # Undefined
                     /\ e.metadata[1].responseTime = Some(now - procs[p].startTime)
                     /\ IF SettledThrew(p)
                        THEN e.status = "failed" /\ e.error = Some(ThrownMessage(p))
                        ELSE /\ e.metadata[1].httpStatus # Undefined
                             /\ LET status == e.metadata[1].httpStatus[1]
                                IN  IF status \in 200..299
                                    THEN /\ e.status = "success" /\ e.error = Undefined
                                         /\ SettledOk(p) /\ ~SettledNot2xx(p)
                                    ELSE /\ e.status = "failed"
                                         /\ e.error = Some("HTTP " \o ToString(status))
                                         /\ ~SettledOk(p) \/ SettledNot2xx(p)]_vars

\* C10 witness: the log holds a success event for a 299 that took a second, a
\* failed event 'HTTP 300' and a failed event with the network error's message.
C10_Witness ==
    /\ \E i \in 1..Len(events) :
           /\ events[i].type = "api_call" /\ events[i].status = "success"
           /\ events[i].metadata[1].httpStatus = Some(299)
           /\ events[i].metadata[1].responseTime = Some(SecondMs)
    /\ \E i \in 1..Len(events) :
           /\ events[i].type = "api_call" /\ events[i].error = Some("HTTP 300")
    /\ \E i \in 1..Len(events) :
           /\ events[i].type = "api_call" /\ events[i].error = Some(NetworkError.message)


(***************************************************************************)
(* getMetrics                                                              *)
(***************************************************************************)
Timeframes == {"hour", "day", "week"}

\* a number that a division produced: num / den
Ratio(num, den) == [num |-> num, den |-> den]
Zero == Ratio(0, 1)

\* cutoff.setHours(getHours() - 1) / setDate(getDate() - 1) / setDate(getDate() - 7),
\* in a time zone without a clock change inside the window
Cutoff(timeframe, t) ==
    CASE timeframe = "hour" -> t - HourMs
      [] timeframe = "day" -> t - DayMs
      [] timeframe = "week" -> t - 7 * DayMs

RECURSIVE SumResponseTimes(_)
SumResponseTimes(evs) ==
    IF evs = <<>> THEN 0
    ELSE Head(evs).metadata[1].responseTime[1] + SumResponseTimes(Tail(evs))

\* e.metadata?.responseTime, as a condition: set and not 0
HasResponseTime(e) ==
    /\ e.metadata # Undefined
    /\ e.metadata[1].responseTime # Undefined
    /\ e.metadata[1].responseTime[1] # 0

\* the filter without its test of the event's type
CountedAnyType(evs, id, timeframe, t) ==
    SelectSeq(evs, LAMBDA e : /\ e.integrationId = id
                              /\ DateParse(e.timestamp) > Cutoff(timeframe, t))

\* the api_call events of integration id after the cutoff
Counted(evs, id, timeframe, t) ==
    SelectSeq(evs, LAMBDA e : /\ e.integrationId = id
                              /\ DateParse(e.timestamp) > Cutoff(timeframe, t)
                              /\ e.type = "api_call")

\* getMetrics with failedRequests counted over the whole log of the integration
GetMetricsFailedOverLog(evs, id, timeframe, t) ==
    LET counted == Counted(evs, id, timeframe, t)
        totalRequests == Len(counted)
        successfulRequests == Len(SelectSeq(counted, LAMBDA e : e.status = "success"))
        failedRequests ==
            Len(SelectSeq(evs, LAMBDA e : e.integrationId = id /\ e.status = "failed"))
        responseTimes == SelectSeq(counted, HasResponseTime)
    IN  [totalRequests |-> totalRequests,
         successfulRequests |-> successfulRequests,
         failedRequests |-> failedRequests,
         averageResponseTime |->
             IF Len(responseTimes) > 0
             THEN Ratio(SumResponseTimes(responseTimes), Len(responseTimes)) ELSE Zero,
         errorRate |-> Ratio(failedRequests * 100, totalRequests)]

\* getMetrics(id, timeframe) at clock value t over the log evs
GetMetrics(evs, id, timeframe, t) ==
    LET counted == Counted(evs, id, timeframe, t)
        totalRequests == Len(counted)
        successfulRequests == Len(SelectSeq(counted, LAMBDA e : e.status = "success"))
        failedRequests == totalRequests - successfulRequests
        responseTimes == SelectSeq(counted, HasResponseTime)
    IN  [totalRequests |-> totalRequests,
         successfulRequests |-> successfulRequests,
         failedRequests |-> failedRequests,
         averageResponseTime |->
             IF Len(responseTimes) > 0
             THEN Ratio(SumResponseTimes(responseTimes), Len(responseTimes)) ELSE Zero,
         errorRate |->
             IF totalRequests > 0 THEN Ratio(failedRequests * 100, totalRequests) ELSE Zero]

\* C5: each logEvent adds exactly one entry, at the tail; the log never holds
\* more than its capacity; and what it holds is exactly the most recently
\* appended entries, in the order they were appended.
C5_EventLogBound ==
    [][/\ appended' # appended =>
             /\ Len(appended') = Len(appended) + 1
             /\ SubSeq(appended', 1, Len(appended)) = appended
             /\ events'[Len(events')] = appended'[Len(appended')]
       /\ Len(events') <= MaxEvents
       /\ Len(events') = IF Len(appended') < MaxEvents THEN Len(appended') ELSE MaxEvents
       /\ \A i \in 1..Len(events') :
              events'[i] = appended'[Len(appended') - Len(events') + i]]_vars

\* C5 witness: more events were appended than the log holds, by a connection
\* test or call, a webhook and a sync, and the log holds one of each.
C5_Witness ==
    /\ Len(appended) > MaxEvents
    /\ Len(events) = MaxEvents
    /\ \E i \in 1..Len(events) : events[i].type \in {"api_call", "error"}
    /\ \E i \in 1..Len(events) : events[i].type = "webhook"
    /\ \E i \in 1..Len(events) : events[i].type = "sync"

\* C6: for every integration id and every timeframe, over every log the manager
\* can hold, getMetrics returns successfulRequests + failedRequests =
\* totalRequests, and errorRate = 0 when totalRequests = 0.
C6_MetricsConsistency ==
    \A id \in Ids, tf \in Timeframes :
        LET m == GetMetrics(events, id, tf, now)
        IN  /\ m.successfulRequests + m.failedRequests = m.totalRequests
            /\ m.totalRequests = 0 => m.errorRate = Zero

\* C6 witness: the log holds a successful and a failed api_call and an 'error'
\* event of integration x, whose metrics count two requests, while integration
\* y has none.
C6_Witness ==
    /\ GetMetrics(events, "x", "hour", now).totalRequests = 2
    /\ GetMetrics(events, "x", "hour", now).successfulRequests = 1
    /\ \E i \in 1..Len(events) : events[i].type = "error" /\ events[i].integrationId = "x"
    /\ GetMetrics(events, "y", "hour", now).totalRequests = 0

\* C7 (as claimed): whatever its handlers do, handleWebhook ends without
\* throwing and with every matching handler invoked.
C7_WebhookIsolation ==
    \A p \in Procs :
        (procs[p].op = "webhook" /\ procs[p].pc = "done") =>
            /\ procs[p].result = Returned("void")
            /\ procs[p].matching = <<>>

Attempts(h, n) == Cardinality({i \in 1..Len(h) : h[i].n = n})

Tested(p) == procs[p].pc \in {"test_ok", "test_bad", "test_catch"}
\* whether history h holds an 'error'-type event of integration id
HasErrorEvent(h, id) ==
    \E i \in 1..Len(h) : h[i].type = "error" /\ h[i].integrationId = id

\* C12 (as claimed): a connection test whose health call succeeded sets the
\* status to active; one whose health call failed, by a thrown error or by a
\* response outside 2xx, sets it to error, and when it finishes an 'error'-type
\* event of the integration has been recorded.
C12_TestSetsStatusAndRecords ==
    [][\A p \in Procs :
          /\ (Tested(p) /\ procs'[p].pc # procs[p].pc) =>
                 integrations'[procs[p].id].status =
                     IF procs[p].pc = "test_ok" THEN "active" ELSE "error"
          /\ (procs[p].pc \in {"test_bad", "test_log"} /\ procs'[p].pc = "done") =>
                 HasErrorEvent(appended', procs[p].id)]_vars

\* a step in which a registerIntegration(config) for id stores its configuration
Registers(id) ==
    \E p \in Procs : Starts(p) /\ procs'[p].op = "register" /\ procs'[p].id = id

\* C13 (as claimed): the status of a stored integration changes only in the step
\* in which a connection test writes the outcome of its health call (a
\* registration storing a configuration under the id aside).
C13_StatusOnlyByTest ==
    [][\A id \in DOMAIN integrations :
          (/\ id \in DOMAIN integrations'
           /\ integrations'[id].status # integrations[id].status
           /\ ~Registers(id)) =>
              \E p \in Procs :
                  /\ Tested(p) /\ procs[p].id = id
                  /\ procs'[p].pc # procs[p].pc]_vars

(***************************************************************************)
(* Registration of an id that is already registered                        *)
(***************************************************************************)
\* the limiter a registration declaring rl binds, once its own health call has
\* been through it
FreshlyBound(rl, t) == CanMakeRequest(NewRateLimiter(rl), t).limiter

\* the per-id state is the one a registration of the configuration now stored
\* under id produces on its own: no limiter when it declares no rateLimits, else
\* a limiter with the declared limits and no request older than the registration
OnlyTheNew(ints, lims, id, t) ==
    LET rl == ints[id].settings.rateLimits
    IN  /\ ints[id].createdAt = ToISOString(t)
        /\ ints[id].updatedAt = ToISOString(t)
        /\ IF rl = Undefined THEN id \notin DOMAIN lims
           ELSE id \in DOMAIN lims /\ lims[id] = FreshlyBound(rl[1], t)

\* C14 (as claimed): a registerIntegration for an id that is already registered
\* either is rejected, leaving the registry and the limiters as they were, or
\* leaves under that id the configuration and the limiter of the new
\* registration alone.
C14_NoSilentMixture ==
    [][\A id \in DOMAIN integrations :
          Registers(id) =>
              \/ /\ integrations' = integrations
                 /\ rateLimiters' = rateLimiters
                 /\ \E p \in Procs : /\ Starts(p) /\ procs'[p].pc = "done"
                                      /\ procs'[p].result[1].kind = "throw"
              \/ OnlyTheNew(integrations', rateLimiters', id, now)]_vars

\* C15 (as claimed): an integration whose stored configuration declares no
\* rateLimits (no update here removes declared limits, so its last registration
\* declared none) has no limiter bound to its id, and a makeApiCall for it does
\* not fail with 'Rate limit exceeded'.
C15_NoLimitsNoLimiter ==
    [][\A id \in DOMAIN integrations' :
          integrations'[id].settings.rateLimits = Undefined =>
              /\ id \notin DOMAIN rateLimiters'
              /\ \A p \in Procs :
                     (Starts(p) /\ procs'[p].id = id /\ procs'[p].pc = "done") =>
                         procs'[p].result # Threw(RateLimited)]_vars

(***************************************************************************)
(* updateIntegration called by a user of the manager                       *)
(***************************************************************************)
\* a step in which slot p takes an updateIntegration(id, ...) call
Updates(p, id) == Starts(p) /\ procs'[p].op = "update" /\ procs'[p].id = id

\* field f of the stored configuration after the step is the value updates gives
\* it, or the value it had when updates does not name it
FieldMerged(id, f, updates) ==
    integrations'[id][f] = IF f \in DOMAIN updates THEN updates[f] ELSE integrations[id][f]

\* C16: an updateIntegration(id, updates) on a registered id stores every field
\* that updates names with its value and every other field as it was, sets
\* updatedAt to the current time, and
\* leaves every other integration, every limiter (limits and history) and the
\* log as they were, also when it changes settings.rateLimits; on an unknown id
\* it throws 'Integration <id> not found' and changes none of them.
C16_UpdateMergesOnly ==
    [][\A p \in Procs, id \in Ids :
          Updates(p, id) =>
              /\ rateLimiters' = rateLimiters
              /\ events' = events /\ appended' = appended
              /\ webhookHandlers' = webhookHandlers
              /\ IF id \in DOMAIN integrations
                 THEN /\ procs'[p].result = Returned("void")
                      /\ DOMAIN integrations' = DOMAIN integrations
                      /\ \A other \in DOMAIN integrations \ {id} :
                             integrations'[other] = integrations[other]
                      /\ DOMAIN integrations'[id] = DOMAIN integrations[id]
                      /\ integrations'[id].updatedAt = ToISOString(now)
                      /\ \A f \in DOMAIN integrations[id] \ {"updatedAt"} :
                             FieldMerged(id, f, procs'[p].updates[1])
                 ELSE /\ procs'[p].result = Threw(NotFound(id))
                      /\ integrations' = integrations]_vars

\* C16 witness: an update, a second after the registration, has changed the
\* declared rateLimits of an integration whose limiter still has the limits it
\* was registered with and the request it admitted.
C16_Witness ==
    \E p \in Procs :
        /\ procs[p].op = "update" /\ procs[p].pc = "done"
        /\ procs[p].result = Returned("void")
        /\ procs[p].id \in DOMAIN rateLimiters
        /\ LET c == integrations[procs[p].id]
               l == rateLimiters[procs[p].id]
           IN  /\ c.settings.rateLimits # Undefined
               /\ c.settings.rateLimits[1] # l.limits
               /\ l.requests # <<>>
               /\ c.updatedAt = ToISOString(now) /\ c.updatedAt # c.createdAt

(***************************************************************************)
(* Operations on an id that is not registered                              *)
(***************************************************************************)
\* C17 (as claimed): an operation other than a registration that is called with
\* an id the registry does not hold ends at once by throwing 'Integration <id>
\* not found', and leaves the registry, the limiters and the log as they were.
C17_UnknownIdFails ==
    [][\A p \in Procs :
          (/\ Starts(p) /\ procs'[p].op # "register"
           /\ procs'[p].id \notin DOMAIN integrations) =>
              /\ procs'[p].pc = "done"
              /\ procs'[p].result = Threw(NotFound(procs'[p].id))
              /\ integrations' = integrations
              /\ rateLimiters' = rateLimiters
              /\ events' = events]_vars

(***************************************************************************)
(* syncData                                                                *)
(***************************************************************************)
\* a step in which slot p takes a syncData(id, ...) call
Syncs(p, id) == Starts(p) /\ procs'[p].op = "sync" /\ procs'[p].id = id

\* C18: a syncData for a registered integration whose settings.syncEnabled is
\* false returns at once: neither pullData nor pushData is invoked, the stored
\* configuration (lastSync and updatedAt with it) and the log stay as they were.
C18_DisabledSyncIsNoOp ==
    [][\A p \in Procs, id \in DOMAIN integrations :
          (Syncs(p, id) /\ ~integrations[id].settings.syncEnabled) =>
              /\ procs'[p].pc = "done"
              /\ procs'[p].result = Returned("void")
              /\ invoked' = invoked
              /\ integrations' = integrations
              /\ events' = events
              /\ appended' = appended]_vars

\* C18 witness: a bidirectional sync of an integration registered with
\* syncEnabled false has returned, with no step invoked for it and lastSync unset.
C18_Witness ==
    \E p \in Procs :
        /\ procs[p].op = "sync" /\ procs[p].pc = "done"
        /\ procs[p].direction = "bidirectional"
        /\ procs[p].id \in DOMAIN integrations
        /\ ~integrations[procs[p].id].settings.syncEnabled
        /\ integrations[procs[p].id].settings.lastSync = Undefined
        /\ \A i \in 1..Len(invoked) : invoked[i].n # procs[p].n

\* the pull or push step that slot p awaits fails in this step: the invocation
\* ends without going on to the next step or to the update of lastSync
StepFails(p) == procs[p].pc \in {"pull", "push"} /\ procs'[p].pc = "done"

HasInvoked(n, what) == \E i \in 1..Len(invoked) : invoked[i].n = n /\ invoked[i].what = what
\* the steps a sync in the given direction invokes
StepsOf(direction) ==
    CASE direction = "pull" -> {"pull"}
      [] direction = "push" -> {"push"}
      [] direction = "bidirectional" -> {"pull", "push"}
\* the last step of the sync in slot p succeeds in this step and lastSync is written
SyncSucceeds(p) == procs[p].pc \in {"pull", "push"} /\ procs'[p].pc = "sync_log"
\* the step appends a sync event with the given status
AppendsSync(status) ==
    /\ appended' # appended
    /\ appended'[Len(appended')].type = "sync"
    /\ appended'[Len(appended')].status = status
\* the lastSync of every integration the registry held before the step
LastSyncs(ints) == [id \in DOMAIN integrations |-> ints[id].settings.lastSync]

\* C20: when the last step of an enabled syncData has succeeded, every step of
\* its direction was invoked, lastSync is set to the current time and nothing is
\* logged yet; the invocation then appends exactly one event, sync / outbound /
\* success with its direction as data, and is done.  A success event is only
\* ever appended that way, a step that appends a failed sync event leaves the
\* registry as it was and belongs to an invocation that has not written
\* lastSync, and apart from registrations lastSync changes in no other step.
C20_LastSyncThenSuccess ==
    [][/\ \A p \in Procs :
             /\ SyncSucceeds(p) =>
                    /\ \A what \in StepsOf(procs[p].direction) : HasInvoked(procs[p].n, what)
                    /\ integrations'[procs[p].id].settings.lastSync = Some(ToISOString(now))
                    /\ appended' = appended
             /\ (procs[p].pc = "sync_log" /\ procs'[p] # procs[p]) =>
                    /\ procs'[p].pc = "done"
                    /\ procs'[p].result = Returned("void")
                    /\ integrations' = integrations
                    /\ Len(appended') = Len(appended) + 1
                    /\ LET e == appended'[Len(appended')]
                       IN  /\ e.type = "sync" /\ e.direction = "outbound"
                           /\ e.status = "success" /\ e.error = Undefined
                           /\ e.integrationId = procs[p].id
                           /\ e.data = Some([direction |-> procs[p].direction])
       /\ AppendsSync("success") =>
             \E p \in Procs : procs[p].pc = "sync_log" /\ procs'[p].pc = "done"
       /\ AppendsSync("failed") =>
             /\ integrations' = integrations
             /\ \E p \in Procs : StepFails(p)
       /\ LastSyncs(integrations') # LastSyncs(integrations) =>
             \/ \E p \in Procs : SyncSucceeds(p)
             \/ \E id \in DOMAIN integrations : Registers(id)]_vars

\* C20 witness: the last entry of the log is the success event of a
\* bidirectional sync that invoked both steps, finished a second after the
\* registration, and wrote that moment as lastSync.
C20_Witness ==
    \E p \in Procs :
        /\ procs[p].op = "sync" /\ procs[p].pc = "done"
        /\ procs[p].direction = "bidirectional"
        /\ HasInvoked(procs[p].n, "pull") /\ HasInvoked(procs[p].n, "push")
        /\ integrations[procs[p].id].settings.lastSync = Some(ToISOString(SecondMs))
        /\ integrations[procs[p].id].createdAt = ToISOString(0)
        /\ events # <<>>
        /\ LET e == events[Len(events)]
           IN  /\ e.type = "sync" /\ e.status = "success"
               /\ e.data = Some([direction |-> "bidirectional"])

(***************************************************************************)
(* Metrics over a log that spans hours, days and weeks: two integrations,  *)
(* their connection tests, calls, syncs and webhooks, called one at a time *)
(* with any time between the calls.                                        *)
(***************************************************************************)
MaxLongTicks == 2   \* clock advances in a behaviour of the metrics

\* Clock steps that put an event exactly on the edge of the hour, the day and
\* the week, and between any two of them.
LongDeltas == {HourMs, DayMs, 7 * DayMs}

TickLong ==
    /\ ticks < MaxLongTicks
    /\ \E d \in LongDeltas : Advance(d)
    /\ UNCHANGED limVars
    /\ UNCHANGED mgrVars

MetricConfigs == Configs(Ids, {TRUE}, {Undefined})

\* nothing is in flight: the callers here make one call at a time
Quiet == \A p \in Procs : Free(p)

NextMetrics ==
    \/ \E p \in Procs, c \in MetricConfigs : Quiet /\ StartRegister(p, c)
    \/ \E p \in Procs, i \in Registrable : Quiet /\ StartCall(p, i)
    \/ \E p \in Procs : SettleFetch(p, {Response(200), Response(300), NetworkError})
    \/ \E p \in Procs : TestSetStatus(p)
    \/ \E p \in Procs : TestLogError(p)
    \/ \E h \in HandlerChoices : h.eventTypes = {"paid"} /\ RegisterWebhookHandler(h)
    \/ \E p \in Procs, i \in Registrable : Quiet /\ StartWebhook(p, i, "paid")
    \/ \E p \in Procs : SettleHandler(p)
    \/ \E p \in Procs, i \in Registrable : Quiet /\ StartSync(p, i, "pull")
    \/ \E p \in Procs : SettleStep(p)
    \/ \E p \in Procs : SyncLogSuccess(p)
    \/ Quiet /\ TickLong

SpecMetrics == Init /\ [][NextMetrics]_vars

\* the length of the trailing window a timeframe stands for
Window(timeframe) ==
    CASE timeframe = "hour" -> HourMs
      [] timeframe = "day" -> DayMs
      [] timeframe = "week" -> 7 * DayMs

\* the positions in log h of the api_call events of integration id whose
\* timestamp lies in the trailing window (now - w, now]
InTimeframe(h, id, w) ==
    {i \in 1..Len(h) : /\ h[i].type = "api_call"
                        /\ h[i].integrationId = id
                        /\ h[i].timestamp.date * DayMs + h[i].timestamp.time > now - w}

\* two ratios are the same number
SameNumber(r, q) == r.num * q.den = q.num * r.den

\* C21: for every integration and timeframe, over every log the manager can
\* hold, getMetrics reports as totalRequests the number of retained api_call
\* events of that integration stamped inside the trailing window, as
\* successfulRequests those of them with status success and as failedRequests
\* the others (no event of another type or another integration is counted), and
\* errorRate = failedRequests / totalRequests * 100 whenever a request is counted.
C21_MetricsCountApiCalls ==
    \A id \in Ids, tf \in Timeframes :
        LET m == GetMetrics(events, id, tf, now)
            S == InTimeframe(events, id, Window(tf))
        IN  /\ m.totalRequests = Cardinality(S)
            /\ m.successfulRequests =
                   Cardinality({i \in S : events[i].status = "success"})
            /\ m.failedRequests =
                   Cardinality({i \in S : events[i].status # "success"})
            /\ m.totalRequests > 0 =>
                   SameNumber(m.errorRate, Ratio(m.failedRequests * 100, m.totalRequests))

\* C21 witness: the log has evicted an api_call event of x; it holds one api_call
\* event of x, stamped exactly an hour ago, that the day's metrics count and the
\* hour's do not, and a sync event of x stamped now that neither counts.
C21_Witness ==
    /\ Len(appended) > MaxEvents
    /\ Cardinality(InTimeframe(appended, "x", DayMs)) = 2
    /\ GetMetrics(events, "x", "day", now).totalRequests = 1
    /\ GetMetrics(events, "x", "hour", now).totalRequests = 0
    /\ \E i \in 1..Len(events) :
           /\ events[i].type = "sync" /\ events[i].integrationId = "x"
           /\ events[i].timestamp = ToISOString(now)

\* event e carries a responseTime, 0 included
CarriesResponseTime(e) ==
    e.metadata # Undefined /\ e.metadata[1].responseTime # Undefined

\* C22 (as claimed): for every integration and timeframe, averageResponseTime
\* is the sum of metadata.responseTime over the counted api_call events that
\* carry one, a measured 0 included, divided by their number, and 0 when none
\* carries one.
C22_AverageOverAllMeasured ==
    \A id \in Ids, tf \in Timeframes :
        LET measured == SelectSeq(Counted(events, id, tf, now), CarriesResponseTime)
            average == GetMetrics(events, id, tf, now).averageResponseTime
        IN  IF Len(measured) = 0 THEN average = Zero
            ELSE SameNumber(average, Ratio(SumResponseTimes(measured), Len(measured)))

(***************************************************************************)
(* getEvents                                                               *)
(***************************************************************************)
\* the limits callers pass: none of the log, part of it, all of it and more
QueryLimits == 0..(MaxEvents + 1)
\* the integrationId callers pass, or none
QueryIds == {Undefined} \cup {Some(id) : id \in Ids}

\* where a stable sort by (a, b) => time(b) - time(a) puts e among the entries
\* sorted before it: after every entry that is not older
RECURSIVE InsertByTime(_, _)
InsertByTime(sorted, e) ==
    IF sorted = <<>> THEN <<e>>
    ELSE IF DateParse(Head(sorted).timestamp) >= DateParse(e.timestamp)
         THEN <<Head(sorted)>> \o InsertByTime(Tail(sorted), e)
         ELSE <<e>> \o sorted

\* events.sort((a, b) => new Date(b.timestamp).getTime() - new Date(a.timestamp).getTime())
RECURSIVE SortNewestFirst(_)
SortNewestFirst(evs) ==
    IF evs = <<>> THEN <<>>
    ELSE InsertByTime(SortNewestFirst(SubSeq(evs, 1, Len(evs) - 1)), evs[Len(evs)])

\* seq.slice(0, limit)
SliceFirst(seq, limit) == SubSeq(seq, 1, IF limit < Len(seq) THEN limit ELSE Len(seq))

\* getEvents(integrationId, limit) over the log evs
GetEvents(evs, integrationId, limit) ==
    LET filtered == IF integrationId # Undefined
                    THEN SelectSeq(evs, LAMBDA e : e.integrationId = integrationId[1])
                    ELSE evs
    IN  SliceFirst(SortNewestFirst(filtered), limit)

\* C23 (as claimed): for every integrationId (or none) and limit, getEvents
\* returns the min(limit, number of matching retained events) most recently
\* appended matching events, the most recently appended first, also when
\* events share a timestamp.
C23_NewestFirst ==
    \A integrationId \in QueryIds, limit \in QueryLimits :
        LET matching == IF integrationId = Undefined THEN events
                        ELSE SelectSeq(events, LAMBDA e : e.integrationId = integrationId[1])
            k == IF limit < Len(matching) THEN limit ELSE Len(matching)
        IN  GetEvents(events, integrationId, limit) =
                [j \in 1..k |-> matching[Len(matching) - j + 1]]

(***************************************************************************)
(* handleWebhook                                                           *)
(***************************************************************************)
\* the handler that slot p awaits settles in this step
HandlerSettles(p) == procs[p].pc = "handler" /\ procs'[p] # procs[p]

\* C24 (as claimed): a handleWebhook(id, eventType) with no handler registered
\* for id and eventType returns at once with nothing invoked and the log as it
\* was; otherwise it invokes the first such handler in registration order, and
\* each time the handler it awaits settles it appends exactly one webhook /
\* inbound event and invokes the next such handler, returning after the last:
\* every matching registration is invoked once, in registration order, with one
\* event each in that order.
C24_EveryMatchingHandlerOnce ==
    [][\A p \in Procs :
          /\ (Starts(p) /\ procs'[p].op = "webhook") =>
                 LET mine == SelectSeq(HandlersOf(procs'[p].id),
                                 LAMBDA h : procs'[p].eventType \in h.eventTypes)
                 IN  /\ appended' = appended /\ events' = events
                     /\ procs'[p].matching = mine
                     /\ IF mine = <<>>
                        THEN /\ invoked' = invoked
                             /\ procs'[p].pc = "done"
                             /\ procs'[p].result = Returned("void")
                        ELSE invoked' = Append(invoked,
                                 Invocation(procs'[p].n, "handler", mine[1].handler))
          /\ HandlerSettles(p) =>
                 LET rest == Tail(procs[p].matching)
                 IN  /\ Len(appended') = Len(appended) + 1
                     /\ appended'[Len(appended')].type = "webhook"
                     /\ appended'[Len(appended')].direction = "inbound"
                     /\ appended'[Len(appended')].integrationId = procs[p].id
                     /\ procs'[p].matching = rest
                     /\ IF rest = <<>>
                        THEN /\ invoked' = invoked
                             /\ procs'[p].pc = "done"
                             /\ procs'[p].result = Returned("void")
                        ELSE /\ procs'[p].pc = "handler"
                             /\ invoked' = Append(invoked,
                                    Invocation(procs[p].n, "handler", rest[1].handler))]_vars

(***************************************************************************)
(* The limiter alone, with the limits of the worked example among those it *)
(* can be given.                                                           *)
(***************************************************************************)
ExampleLimits == Limits(1, 5, 10)

InitAdmission ==
    /\ now = 0
    /\ ticks = 0
    /\ \E l \in LimitChoices \cup {ExampleLimits} : limiter = NewRateLimiter(l)
    /\ lastReturn = Undefined
    /\ admitted = <<>>
    /\ checks = 0
    /\ NoManager

SpecAdmission == InitAdmission /\ [][NextLimiter]_vars

\* how many of the timestamps the limiter holds lie in the trailing window (now - w, now]
Held(w) == Cardinality({i \in 1..Len(limiter.requests) : limiter.requests[i] > now - w})

\* C25: a canMakeRequest() call made when the limiter holds fewer timestamps in
\* the trailing second, hour and 24 hours than requestsPerSecond,
\* requestsPerHour and requestsPerDay returns true and appends the current time
\* to the timestamps of the last 24 hours; and of any number of calls made at
\* one instant on a new limiter with limits 1 / second, 5 / hour, 10 / day the
\* first alone is admitted.
C25_AdmitsBelowLimits ==
    [][checks' = checks + 1 =>
          /\ (/\ Held(SecondMs) < limiter.limits.requestsPerSecond
              /\ Held(HourMs) < limiter.limits.requestsPerHour
              /\ Held(DayMs) < limiter.limits.requestsPerDay) =>
                 /\ lastReturn' = Some(TRUE)
                 /\ admitted' = Append(admitted, now)
                 /\ limiter'.requests =
                        Append(SelectSeq(limiter.requests, LAMBDA time : time > now - DayMs), now)
          /\ (limiter.limits = ExampleLimits /\ ticks = 0) =>
                 /\ lastReturn' = Some(checks = 0)
                 /\ admitted' = <<now>>]_vars

\* C25 witness: five calls at one instant on the limiter of the example, the
\* first admitted and the other four turned down.
C25_Witness ==
    /\ limiter.limits = ExampleLimits
    /\ ticks = 0 /\ checks = 5
    /\ admitted = <<now>>
    /\ lastReturn = Some(FALSE)

\* the timestamps of list requests that are less than 24 hours old, in order
Recent(requests) == SelectSeq(requests, LAMBDA time : time > now - DayMs)

\* C26: the list of a limiter changes in no step but a canMakeRequest() call
\* (time passing removes nothing), and such a call decides on, and leaves, the
\* timestamps less than 24 hours old and nothing older: it drops exactly the
\* entries that are 24 hours old or older, keeps the others in order, adds at
\* most the current time, and admits exactly when the kept entries number fewer
\* than requestsPerDay and those of the last hour and second fewer than their
\* limits.
C26_PrunedLazily ==
    [][/\ limiter'.requests # limiter.requests => checks' = checks + 1
       /\ checks' = checks + 1 =>
             /\ \A i \in 1..Len(limiter'.requests) : limiter'.requests[i] > now - DayMs
             /\ limiter'.requests = IF lastReturn' = Some(TRUE)
                                    THEN Append(Recent(limiter.requests), now)
                                    ELSE Recent(limiter.requests)
             /\ lastReturn' = Some(/\ Len(Recent(limiter.requests))
                                          < limiter.limits.requestsPerDay
                                   /\ Held(HourMs) < limiter.limits.requestsPerHour
                                   /\ Held(SecondMs) < limiter.limits.requestsPerSecond)]_vars

\* C26 witness: a limiter of one request per day has admitted a second request
\* 24 hours after the first, whose timestamp stayed in the list all day and is
\* gone now.
C26_Witness ==
    /\ limiter.limits.requestsPerDay = 1
    /\ Len(admitted) = 2
    /\ admitted[2] = admitted[1] + DayMs
    /\ checks = 2
    /\ limiter.requests = <<now>>

\* the steps that invocation number n has invoked, in the order of invocation
RECURSIVE StepsInvoked(_, _)
StepsInvoked(inv, n) ==
    IF inv = <<>> THEN <<>>
    ELSE IF inv[1].n = n THEN <<inv[1].what>> \o StepsInvoked(Tail(inv), n)
         ELSE StepsInvoked(Tail(inv), n)
\* the pull step that slot p awaits succeeds in this step
PullSucceeds(p) == procs[p].pc = "pull" /\ procs'[p].pc \in {"push", "sync_log"}
\* slot p holds a syncData that passed the syncEnabled test and has finished
SyncFinished(p) ==
    procs[p].op = "sync" /\ procs[p].pc = "done" /\ procs[p].settings # Undefined

RegistryConfigs == Configs(Ids, {FALSE}, {Undefined})
\* partial configurations naming the fields the type lets a caller name
RegistryUpdates == {[status |-> "inactive"], [id |-> "y"], [createdAt |-> ToISOString(0)]}

NextRegistry ==
    \/ \E p \in Procs, c \in RegistryConfigs : StartRegister(p, c)
    \/ \E p \in Procs : SettleFetch(p, {Response(200)})
    \/ \E p \in Procs : TestSetStatus(p)
    \/ \E p \in Procs, i \in Ids, u \in RegistryUpdates : StartUpdate(p, i, u)
    \/ TickMgr

SpecRegistry == Init /\ [][NextRegistry]_vars

\* C28 (as claimed): every step leaves every registry entry stored under the id
\* its configuration carries, with the createdAt that its registration set: a
\* step that registers the id sets createdAt to the current time, and no other
\* step adds an entry or changes the createdAt of one.
C28_KeyIsIdCreatedAtKept ==
    [][\A id \in DOMAIN integrations' :
          /\ integrations'[id].id = id
          /\ IF Registers(id)
             THEN integrations'[id].createdAt = ToISOString(now)
             ELSE /\ id \in DOMAIN integrations
                  /\ integrations'[id].createdAt = integrations[id].createdAt]_vars

(***************************************************************************)
(* A sync in flight while a caller changes the settings.                   *)
(***************************************************************************)
RaceConfigs == Configs(Registrable, {TRUE}, {Undefined})
\* the settings a caller stores to declare rate limits: the stored ones with
\* rateLimits replaced
WithRateLimits(settings) == [settings EXCEPT !.rateLimits = Some(Limits(1, 1, 1))]

NextRace ==
    \/ \E p \in Procs, c \in RaceConfigs : StartRegister(p, c)
    \/ \E p \in Procs : SettleFetch(p, {Response(200)})
    \/ \E p \in Procs : TestSetStatus(p)
    \/ \E p \in Procs, i \in Registrable : StartSync(p, i, "pull")
    \/ \E p \in Procs : SettleStep(p)
    \/ \E p \in Procs : SyncLogSuccess(p)
    \/ \E p \in Procs, i \in Registrable :
           /\ i \in DOMAIN integrations
           /\ StartUpdate(p, i, [settings |-> WithRateLimits(integrations[i].settings)])
    \/ TickMgr

SpecRace == Init /\ [][NextRace]_vars

\* C29 (as claimed): the step in which a syncData writes lastSync changes, in
\* the stored configuration as it is at that moment (with every settings change
\* committed since the sync started), settings.lastSync and updatedAt only,
\* and changes no other entry.
C29_LastSyncWriteKeepsSettings ==
    [][\A p \in Procs :
          SyncSucceeds(p) =>
              integrations' =
                  MapSet(integrations, procs[p].id,
                         [integrations[procs[p].id] EXCEPT
                             !.settings = WithLastSync(@, now),
                             !.updatedAt = ToISOString(now)])]_vars

\* a step in which slot p takes a testIntegration(id) call, or a
\* registerIntegration call of a configuration with that id
StartsHealthCall(p, id) ==
    Starts(p) /\ procs'[p].op \in {"test", "register"} /\ procs'[p].id = id
\* slot p holds a connection test whose health call the limiter turned down
TurnedDown(pr) == pr.op \in {"test", "register"} /\ pr.err = Some(RateLimited)

\* C30: a testIntegration on a registered id with a limiter bound runs that
\* limiter's check: the limiter is left as its canMakeRequest() leaves it, and
\* the health request is sent exactly when it said yes.  The health call of a
\* test or a registration that is sent has its time recorded as the last
\* timestamp of the limiter bound to the id, and no later step of the call (its
\* fetch settling in any way, the status write, the logging) changes a limiter.
\* One that is turned down sends no request and logs nothing in that step; its
\* next step sets the status to error, sending and logging nothing; its last
\* step appends exactly one event, of type error with the message 'Rate limit
\* exceeded', and the test returns false (the registration returns the id).
C30_HealthCallIsRateLimited ==
    [][\A p \in Procs :
          /\ \A id \in Ids :
                StartsHealthCall(p, id) /\ id \in DOMAIN integrations' =>
                    /\ procs'[p].pc \in {"fetch", "test_catch"}
                    /\ appended' = appended
                    /\ (procs'[p].op = "test" /\ id \in DOMAIN rateLimiters) =>
                           /\ rateLimiters' = MapSet(rateLimiters, id,
                                   CanMakeRequest(rateLimiters[id], now).limiter)
                           /\ procs'[p].pc = "fetch"
                                  <=> CanMakeRequest(rateLimiters[id], now).ok
                    /\ procs'[p].pc = "fetch" =>
                           /\ Len(sent') = Len(sent) + 1
                           /\ sent'[Len(sent')].n = procs'[p].n
                           /\ sent'[Len(sent')].id = id
                           /\ id \in DOMAIN rateLimiters' =>
                                  LET requests == rateLimiters'[id].requests
                                  IN  /\ requests # <<>>
                                      /\ requests[Len(requests)] = now
                    /\ procs'[p].pc = "test_catch" =>
                           /\ procs'[p].err = Some(RateLimited)
                           /\ id \in DOMAIN rateLimiters'
                           /\ ~CanMakeRequest(rateLimiters'[id], now).ok
                           /\ sent' = sent
          /\ (procs[p].op \in {"test", "register"} /\ ~Starts(p) /\ procs'[p] # procs[p]) =>
                 rateLimiters' = rateLimiters
          /\ (TurnedDown(procs[p]) /\ procs'[p] # procs[p] /\ procs[p].pc = "test_catch") =>
                 /\ procs'[p].pc = "test_log"
                 /\ integrations'[procs[p].id].status = "error"
                 /\ sent' = sent /\ appended' = appended /\ events' = events
          /\ (TurnedDown(procs[p]) /\ procs'[p] # procs[p] /\ procs[p].pc = "test_log") =>
                 /\ procs'[p].pc = "done"
                 /\ procs'[p].result = IF procs[p].op = "test" THEN Returned(FALSE)
                                       ELSE Returned(procs[p].id)
                 /\ sent' = sent /\ integrations' = integrations
                 /\ Len(appended') = Len(appended) + 1
                 /\ LET e == appended'[Len(appended')]
                    IN  /\ e.type = "error" /\ e.status = "failed"
                        /\ e.integrationId = procs[p].id
                        /\ e.error = Some("Rate limit exceeded")]_vars

\* C30 witness: a testIntegration whose health call the limiter turned down has
\* returned false: no request carries its number, the status is error and the
\* last event of the log is its 'error' event.
C30_Witness ==
    \E p \in Procs :
        /\ procs[p].op = "test" /\ procs[p].pc = "done"
        /\ TurnedDown(procs[p])
        /\ procs[p].result = Returned(FALSE)
        /\ \A i \in 1..Len(sent) : sent[i].n # procs[p].n
        /\ integrations[procs[p].id].status = "error"
        /\ events # <<>>
        /\ events[Len(events)].type = "error"
        /\ events[Len(events)].error = Some("Rate limit exceeded")

====
